---- MODULE Spec2Model ----
(***************************************************************************)
(* Soil-nail layout generator (NailsModule v3.0, TerrainModule).           *)
(*                                                                         *)
(* Number representation.  The source computes in IEEE doubles.  Here      *)
(* every length entered by the user is an integer number of millimetres    *)
(* (1 = 0.001 m, so the source's epsilon 0.001 is 1 and its 0.5 m is 500), *)
(* angles are whole degrees, and every derived value that the source       *)
(* obtains by division or by cos/sin is an exact rational <<n, d>> in      *)
(* lowest terms with d > 0.  Math.cos / Math.sin are the table CosMilli /  *)
(* SinMilli (value times 1000, rounded).  Quantities that carry the factor *)
(* Math.PI are kept as the rational coefficient of pi.  null is Null (an   *)
(* absent object), NoFace (an absent number) or NoError (error: null).     *)
(***************************************************************************)
EXTENDS Integers, Sequences, FiniteSets, TLC

VARIABLES
  points,         \* TerrainModule: the stored point array, in stored order
  mode,           \* TerrainModule: the canvas tool, "draw" or "select"
  selectedPointIndex, \* TerrainModule: 0-based index of the grabbed point, or -1
  dragging,       \* TerrainModule: TRUE between grabbing a point and letting go
  form,           \* the raw values of the nail parameter form fields
  layout,         \* PreviewModule: the Layout of the last generate(), or Null
  qty,            \* the value of the last calculateQuantities(layout)
  visited,        \* the elevations the row loop of the last generate() tested
  pc,             \* "idle", "generated", "hung" (row loop never ends), "done"
  generatedFrom,  \* the terrain and form the last generate() read, or Null
  earlier,        \* an earlier generate() call: what it read and returned, or Null
  height,         \* slopeHeight argument of a direct advisor / validator call
  design,         \* params argument of a direct validateDesign call
  advice,         \* value of getPrescriptiveParams(height), or Null
  report          \* [warnings |-> validateDesign(design, height)], or Null

vars == <<points, mode, selectedPointIndex, dragging, form, layout, qty, visited,
          pc, generatedFrom, earlier, height, design, advice, report>>

\* the parts of the state one specification uses and another leaves alone
editorVars == <<mode, selectedPointIndex, dragging>>

coreVars == <<layout, qty, visited, pc>>

sessionVars == <<generatedFrom, earlier>>

callVars == <<height, design, advice, report>>

(* ------------------------------ bounds -------------------------------- *)

\* longest stored terrain sequence the model draws
MaxPoints == 3

\* row-loop iterations after which the loop is taken not to return
MaxSteps == 12

(* --------------------------- JS numbers -------------------------------- *)

Abs(n) == IF n < 0 THEN -n ELSE n

Min2(a, b) == IF a <= b THEN a ELSE b

Max2(a, b) == IF a >= b THEN a ELSE b

RECURSIVE GCD(_, _)
GCD(a, b) == IF b = 0 THEN a ELSE GCD(b, a % b)

\* the quotient n/d (d # 0) as a fraction in lowest terms, denominator > 0
Rat(n, d) ==
  LET g == GCD(Abs(n), Abs(d))
      s == IF d < 0 THEN -1 ELSE 1
  IN  <<(s * n) \div g, (s * d) \div g>>

RatAdd(p, q) ==
  LET g == GCD(p[2], q[2])
  IN  Rat(p[1] * (q[2] \div g) + q[1] * (p[2] \div g), p[2] * (q[2] \div g))

RatNeg(p) == <<-p[1], p[2]>>

RatSub(p, q) == RatAdd(p, RatNeg(q))

RatMul(p, q) ==
  LET a == Rat(p[1], q[2])
      b == Rat(q[1], p[2])
  IN  <<a[1] * b[1], a[2] * b[2]>>

RatLt(p, q) == p[1] * q[2] < q[1] * p[2]

RatLe(p, q) == p[1] * q[2] <= q[1] * p[2]

RatSign(p) == IF p[1] > 0 THEN 1 ELSE IF p[1] < 0 THEN -1 ELSE 0

\* Math.floor(a / b) for b # 0
FloorDiv(a, b) == IF b > 0 THEN a \div b ELSE (-a) \div (-b)

\* Math.cos(deg * Math.PI / 180) * 1000, rounded
CosMilli(deg) ==
  CASE deg = -10 -> 985
    [] deg = 5   -> 996
    [] deg = 15  -> 966
    [] deg = 20  -> 940
    [] deg = 25  -> 906
    [] deg = 45  -> 707

\* Math.sin(deg * Math.PI / 180) * 1000, rounded
SinMilli(deg) ==
  CASE deg = -10 -> -174
    [] deg = 5   -> 87
    [] deg = 15  -> 259
    [] deg = 20  -> 342
    [] deg = 25  -> 423
    [] deg = 45  -> 707

(* ------------------------------ null ----------------------------------- *)

Null == [null |-> TRUE]

NoFace == <<>>

NoError == "null"

ErrInsufficientTerrain == "Define at least 2 terrain points first."

ErrFlatTerrain == "Terrain profile is too flat. Need slope height > 0.5m."

ErrInvalidOffsets == "Top/bottom offsets are too large for this slope height."

(* ------------------------- TerrainModule ------------------------------- *)

\* Array.prototype.sort((a, b) => a.x - b.x): stable, ascending by x
RECURSIVE InsertByX(_, _)
InsertByX(sorted, p) ==
  IF sorted = <<>> THEN <<p>>
  ELSE IF sorted[Len(sorted)].x <= p.x THEN Append(sorted, p)
  ELSE Append(InsertByX(SubSeq(sorted, 1, Len(sorted) - 1), p), sorted[Len(sorted)])

RECURSIVE SortByX(_)
SortByX(s) ==
  IF s = <<>> THEN <<>>
  ELSE InsertByX(SortByX(SubSeq(s, 1, Len(s) - 1)), s[Len(s)])

\* faulty variant: the stored points are handed out as they are
getPointsUnsorted(stored) == stored

\* TerrainModule.getPoints(): a sorted copy of the stored points
getPoints(stored) == SortByX(stored)

\* faulty variant: getPoints sorts the stored array itself, without the copy
StoredAfterSortInPlace(stored) == SortByX(stored)

\* the stored array after a getPoints() call: [...points] copies first, so
\* the sort reorders the copy and the stored array is as before
StoredAfterGetPoints(stored) == stored

\* getSlopeSegments(): one segment per consecutive pair of the sorted copy.
\* length and angle are derived from start and end and are not stored here.
getSlopeSegments(stored) ==
  LET sorted == getPoints(stored)
  IN  [i \in 1..(Len(sorted) - 1) |-> [start |-> sorted[i], end |-> sorted[i + 1]]]

\* faulty variant: the angle is compared without Math.abs, so a segment that
\* falls steeply does not count
AngleAbove55Signed(seg) ==
  (seg.end.y - seg.start.y) * 1000 > 1428 * (seg.end.x - seg.start.x)

\* Math.abs(seg.angle) > 55, angle = atan2(dy, dx) in degrees with dx >= 0:
\* |dy| > tan(55 deg) * dx, tan(55 deg) * 1000 = 1428 rounded
AngleAbove55(seg) ==
  Abs(seg.end.y - seg.start.y) * 1000 > 1428 * (seg.end.x - seg.start.x)

(* --------------------------- NailsModule ------------------------------- *)

\* GEO_PRESCRIPTIVE.heightRanges, maxH and nailLength in mm
heightRanges ==
  << [maxH |-> 3000,  minRows |-> 2, barDia |-> 25, nailLength |-> 3000,
      drillDia |-> 100, plateSize |-> 200, plateThk |-> 15],
     [maxH |-> 5000,  minRows |-> 3, barDia |-> 25, nailLength |-> 4000,
      drillDia |-> 100, plateSize |-> 200, plateThk |-> 15],
     [maxH |-> 7000,  minRows |-> 4, barDia |-> 25, nailLength |-> 6000,
      drillDia |-> 100, plateSize |-> 200, plateThk |-> 20],
     [maxH |-> 10000, minRows |-> 5, barDia |-> 32, nailLength |-> 8000,
      drillDia |-> 115, plateSize |-> 250, plateThk |-> 20],
     [maxH |-> 15000, minRows |-> 7, barDia |-> 32, nailLength |-> 12000,
      drillDia |-> 115, plateSize |-> 300, plateThk |-> 20],
     [maxH |-> 20000, minRows |-> 9, barDia |-> 40, nailLength |-> 16000,
      drillDia |-> 150, plateSize |-> 300, plateThk |-> 25] >>

\* GEO_PRESCRIPTIVE.defaults, lengths in mm
defaults ==
  [ inclination         |-> 15,
    hSpacing            |-> 1500,
    vSpacing            |-> 1500,
    topOffset           |-> 500,
    bottomOffset        |-> 500,
    steelGrade          |-> 500,
    groutStrength       |-> 30,
    centralizerSpacing  |-> 1000,
    corrosionProtection |-> "class2",
    facingType          |-> "shotcrete",
    patternType         |-> "staggered" ]

\* faulty variant: a height on a range's upper boundary goes to the next range
FitsStrict(slopeHeight, range) == slopeHeight < range.maxH

\* slopeHeight <= range.maxH
Fits(slopeHeight, range) == slopeHeight <= range.maxH

\* faulty variant: with no range fitting, the smallest range is used
DefaultMatchFirst(ranges) == ranges[1]

\* let match = ranges[ranges.length - 1]
DefaultMatch(ranges) == ranges[Len(ranges)]

\* for (const range of ranges) { if (...) { match = range; break; } }
RECURSIVE FirstFit(_, _, _, _)
FirstFit(ranges, slopeHeight, i, match) ==
  IF i > Len(ranges) THEN match
  ELSE IF Fits(slopeHeight, ranges[i]) THEN ranges[i]
  ELSE FirstFit(ranges, slopeHeight, i + 1, match)

\* { ...a, ...b }
Overlay(a, b) ==
  [k \in DOMAIN a \cup DOMAIN b |-> IF k \in DOMAIN b THEN b[k] ELSE a[k]]

getPrescriptiveParams(slopeHeight) ==
  LET ranges == heightRanges
      match  == FirstFit(ranges, slopeHeight, 1, DefaultMatch(ranges))
  IN  Overlay(defaults,
              [ nailLength     |-> match.nailLength,
                barDiameter    |-> match.barDia,
                drillDiameter  |-> match.drillDia,
                plateSize      |-> match.plateSize,
                plateThickness |-> match.plateThk,
                minRows        |-> match.minRows ])

\* parseFloat(value) || dflt : 0 and NaN (a blank field, read here as 0) are falsy
OrDefault(raw, dflt) == IF raw = 0 THEN dflt ELSE raw

\* The fields of getParams() that generateLayout, validateDesign and
\* calculateQuantities read.  plateSize, plateThickness, facingType,
\* steelGrade, corrosionProtection, centralizers and centralizerSpacing are
\* read only by the diagram and the exporters and are left out.
getParams(f) ==
  [ nailLength     |-> OrDefault(f.nailLength, 6000),
    inclination    |-> OrDefault(f.inclination, 15),
    barDiameter    |-> OrDefault(f.barDiameter, 25),
    drillDiameter  |-> OrDefault(f.drillDiameter, 100),
    hSpacing       |-> OrDefault(f.hSpacing, 1500),
    vSpacing       |-> OrDefault(f.vSpacing, 1500),
    topOffset      |-> OrDefault(f.topOffset, 500),
    bottomOffset   |-> OrDefault(f.bottomOffset, 500),
    patternType    |-> IF f.patternType = "" THEN "rectangular" ELSE f.patternType,
    wallExtent     |-> OrDefault(f.wallExtent, 10000),
    groutStrength  |-> OrDefault(f.groutStrength, 30),
    variableLength |-> f.variableLength ]

\* one consecutive pair of getTerrainXAtElevation's scan: the value the pair
\* returns, or NoFace when the scan goes on to the next pair
SegmentX(p1, p2, elevation) ==
  LET minY == Min2(p1.y, p2.y)
      maxY == Max2(p1.y, p2.y)
  IN  IF elevation >= minY - 1 /\ elevation <= maxY + 1
      THEN IF Abs(p2.y - p1.y) < 1
           THEN Rat(p1.x + p2.x, 2)
           ELSE LET t == Rat(elevation - p1.y, p2.y - p1.y)
                IN  IF RatLe(Rat(-1, 1000), t) /\ RatLe(t, Rat(1001, 1000))
                    THEN RatAdd(Rat(p1.x, 1), RatMul(t, Rat(p2.x - p1.x, 1)))
                    ELSE NoFace
      ELSE NoFace

RECURSIVE ScanFrom(_, _, _)
ScanFrom(terrainPoints, elevation, i) ==
  IF i > Len(terrainPoints) - 1 THEN NoFace
  ELSE LET x == SegmentX(terrainPoints[i], terrainPoints[i + 1], elevation)
       IN  IF x # NoFace THEN x ELSE ScanFrom(terrainPoints, elevation, i + 1)

\* faulty variant: the scan runs from the last pair to the first, so the last
\* qualifying pair wins
RECURSIVE ScanBack(_, _, _)
ScanBack(terrainPoints, elevation, i) ==
  IF i < 1 THEN NoFace
  ELSE LET x == SegmentX(terrainPoints[i], terrainPoints[i + 1], elevation)
       IN  IF x # NoFace THEN x ELSE ScanBack(terrainPoints, elevation, i - 1)

getTerrainXLastMatch(terrainPoints, elevation) ==
  ScanBack(terrainPoints, elevation, Len(terrainPoints) - 1)

\* faulty variant: the scan starts at the second pair
getTerrainXSkipFirst(terrainPoints, elevation) ==
  ScanFrom(terrainPoints, elevation, 2)

getTerrainXAtElevation(terrainPoints, elevation) ==
  ScanFrom(terrainPoints, elevation, 1)

\* a / b < n / d and a / b > n / d (d > 0) as JS evaluates them: a / 0 is
\* +Infinity, -Infinity or NaN, and every comparison with NaN is false
DivLt(a, b, n, d) ==
  IF b > 0 THEN a * d < n * b
  ELSE IF b < 0 THEN a * d > n * b
  ELSE a < 0

DivGt(a, b, n, d) ==
  IF b > 0 THEN a * d > n * b
  ELSE IF b < 0 THEN a * d < n * b
  ELSE a > 0

\* GEO_PRESCRIPTIVE.limits, the entries validateDesign reads
LimitMinSpacing == 1000

LimitMaxSpacing == 2000

LimitMinInclination == 5

LimitMaxSlopeHeight == 20000

WarnIf(cond, tag) == IF cond THEN <<tag>> ELSE <<>>

\* The warnings are named by their rule; the message texts are not modelled.
\* faulty variant: a ratio of exactly 0.6 or exactly 1.5 is reported
RatioWarningsInclusive(params, slopeHeight) ==
     WarnIf(~DivGt(params.nailLength, slopeHeight, 6, 10) /\ slopeHeight # 0, "ratioBelowMin")
  \o WarnIf(~DivLt(params.nailLength, slopeHeight, 15, 10) /\ slopeHeight # 0,
            "ratioAboveTypical")

\* rules 1 and 2: nail length / slope height ratio
RatioWarnings(params, slopeHeight) ==
     WarnIf(DivLt(params.nailLength, slopeHeight, 6, 10), "ratioBelowMin")
  \o WarnIf(DivGt(params.nailLength, slopeHeight, 15, 10), "ratioAboveTypical")

\* faulty variant: the vertical spacing is looked at only when the horizontal
\* spacing is in range
SpacingWarningsShortCircuit(params) ==
  IF params.hSpacing < LimitMinSpacing \/ params.hSpacing > LimitMaxSpacing
  THEN <<"hSpacingOutsideRange">>
  ELSE WarnIf(params.vSpacing < LimitMinSpacing \/ params.vSpacing > LimitMaxSpacing,
              "vSpacingOutsideRange")

\* rules 3 and 4: spacing checks
SpacingWarnings(params) ==
     WarnIf(params.hSpacing < LimitMinSpacing \/ params.hSpacing > LimitMaxSpacing,
            "hSpacingOutsideRange")
  \o WarnIf(params.vSpacing < LimitMinSpacing \/ params.vSpacing > LimitMaxSpacing,
            "vSpacingOutsideRange")

\* rules 5 and 6: inclination check
InclinationWarnings(params) ==
     WarnIf(params.inclination < LimitMinInclination, "inclinationBelowMin")
  \o WarnIf(params.inclination > 20, "inclinationAbove20")

\* rule 7: drill hole vs bar diameter
AnnulusWarnings(params) ==
  WarnIf(DivLt(params.drillDiameter, params.barDiameter, 25, 10), "annulusLow")

\* faulty variant: a grout strength of exactly 20 MPa is reported
GroutWarningsInclusive(params) == WarnIf(params.groutStrength <= 20, "groutBelowMin")

\* rule 8: grout strength
GroutWarnings(params) == WarnIf(params.groutStrength < 20, "groutBelowMin")

\* faulty variant: a slope height of exactly 20 m is reported
HeightWarningsInclusive(slopeHeight) ==
  WarnIf(slopeHeight >= LimitMaxSlopeHeight, "heightAboveLimit")

\* rule 9: slope height check
HeightWarnings(slopeHeight) ==
  WarnIf(slopeHeight > LimitMaxSlopeHeight, "heightAboveLimit")

validateDesign(params, slopeHeight) ==
     RatioWarnings(params, slopeHeight)
  \o SpacingWarnings(params)
  \o InclinationWarnings(params)
  \o AnnulusWarnings(params)
  \o GroutWarnings(params)
  \o HeightWarnings(slopeHeight)

\* [...terrainPoints].sort((a, b) => a.y - b.y): stable, ascending by y
RECURSIVE InsertByY(_, _)
InsertByY(sorted, p) ==
  IF sorted = <<>> THEN <<p>>
  ELSE IF sorted[Len(sorted)].y <= p.y THEN Append(sorted, p)
  ELSE Append(InsertByY(SubSeq(sorted, 1, Len(sorted) - 1), p), sorted[Len(sorted)])

RECURSIVE SortByElev(_)
SortByElev(s) ==
  IF s = <<>> THEN <<>>
  ELSE InsertByY(SortByElev(SubSeq(s, 1, Len(s) - 1)), s[Len(s)])

RECURSIVE MinElevOf(_)
MinElevOf(tp) ==
  IF Len(tp) = 1 THEN tp[1].y ELSE Min2(tp[1].y, MinElevOf(Tail(tp)))

RECURSIVE MaxElevOf(_)
MaxElevOf(tp) ==
  IF Len(tp) = 1 THEN tp[1].y ELSE Max2(tp[1].y, MaxElevOf(Tail(tp)))

\* faulty variant: equal x of the highest and the lowest point gives -1
GroundDirXStrict(terrainPoints) ==
  LET sortedByElev == SortByElev(terrainPoints)
      lowestPt     == sortedByElev[1]
      highestPt    == sortedByElev[Len(sortedByElev)]
  IN  IF highestPt.x > lowestPt.x THEN 1 ELSE -1

\* +1 when the slope rises towards +x, -1 otherwise
GroundDirX(terrainPoints) ==
  LET sortedByElev == SortByElev(terrainPoints)
      lowestPt     == sortedByElev[1]
      highestPt    == sortedByElev[Len(sortedByElev)]
  IN  IF highestPt.x >= lowestPt.x THEN 1 ELSE -1

\* faulty variant: with the variable-length box ticked every row below the
\* first gets a nail 0.5 m longer than the row above
RowNailLengthVariable(params, rowNum) ==
  IF params.variableLength THEN params.nailLength + 500 * (rowNum - 1)
  ELSE params.nailLength

\* params.nailLength, whatever the row
RowNailLength(params, rowNum) == params.nailLength

\* the Row pushed for one elevation with a terrain intersection
MakeRow(params, groundDirX, rowNum, elevation, faceX) ==
  LET nailLength == RowNailLength(params, rowNum)
      nailStartX == faceX
      nailStartY == Rat(elevation, 1)
      nailEndX   == RatAdd(nailStartX,
                      Rat(groundDirX * nailLength * CosMilli(params.inclination), 1000))
      nailEndY   == RatSub(nailStartY,
                      Rat(nailLength * SinMilli(params.inclination), 1000))
  IN  [ rowNumber   |-> rowNum,
        elevation   |-> elevation,
        faceX       |-> faceX,
        nailLength  |-> nailLength,
        inclination |-> params.inclination,
        start       |-> [x |-> nailStartX, y |-> nailStartY],
        end         |-> [x |-> nailEndX, y |-> nailEndY] ]

\* the while loop of generateLayout.  seen is the sequence of elevations the
\* loop has tested so far; returned is FALSE when the loop is still running
\* after MaxSteps iterations.
\* faulty variant: the loop stops before an elevation equal to lastRowElev
LoopContinuesStrict(elevation, lastRowElev) == elevation > lastRowElev

\* while (elevation >= lastRowElev)
LoopContinues(elevation, lastRowElev) == elevation >= lastRowElev

\* faulty variant: the row counter is module state that is not reset, so a
\* call made when a layout already exists numbers its rows one higher
NextRowNumCarried(rowNum, faceX) == rowNum + (IF layout = Null THEN 1 ELSE 2)

\* faulty variant: rowNum++ is missing and every row is numbered 1
NextRowNumStuck(rowNum, faceX) == rowNum

\* faulty variant: the row number advances only when a row is emitted
NextRowNumDense(rowNum, faceX) == IF faceX = NoFace THEN rowNum ELSE rowNum + 1

\* rowNum++ at the end of every iteration; faceX is what the iteration found
NextRowNum(rowNum, faceX) == rowNum + 1

RECURSIVE RowLoop(_, _, _, _, _, _, _, _)
RowLoop(params, terrainPoints, groundDirX, lastRowElev, elevation, rowNum, rows, seen) ==
  IF ~LoopContinues(elevation, lastRowElev)
  THEN [rows |-> rows, seen |-> seen, returned |-> TRUE]
  ELSE IF Len(seen) >= MaxSteps
  THEN [rows |-> rows, seen |-> seen, returned |-> FALSE]
  ELSE LET faceX == getTerrainXAtElevation(terrainPoints, elevation)
       IN  RowLoop(params, terrainPoints, groundDirX, lastRowElev,
                   elevation - params.vSpacing, NextRowNum(rowNum, faceX),
                   IF faceX # NoFace
                   THEN Append(rows, MakeRow(params, groundDirX, rowNum, elevation, faceX))
                   ELSE rows,
                   Append(seen, elevation))

\* faulty variant: a design the validator would warn about (grout below 20 MPa)
\* gets no nails
NailsPerRowIfGroutOk(params) ==
  IF params.groutStrength < 20 THEN 0
  ELSE FloorDiv(params.wallExtent, params.hSpacing) + 1

NailsPerRow(params) == FloorDiv(params.wallExtent, params.hSpacing) + 1

\* faulty variant: the half-spacing shift goes by the row's number (rows 2, 4,
\* ...) and not by its position among the emitted rows
StaggerShiftByRowNumber(params, row, rowIdx) ==
  params.patternType = "staggered" /\ (row.rowNumber - 1) % 2 = 1

\* params.patternType === 'staggered' && rowIdx % 2 === 1
StaggerShift(params, row, rowIdx) ==
  params.patternType = "staggered" /\ rowIdx % 2 = 1

\* the Nail3D pushed for row (at 0-based position rowIdx) and column col
MakeNail(params, row, rowIdx, col) ==
  LET startOffset == Rat(-params.wallExtent, 2)
      base        == RatAdd(startOffset, Rat(col * params.hSpacing, 1))
      zOffset     == IF StaggerShift(params, row, rowIdx)
                     THEN RatAdd(base, Rat(params.hSpacing, 2))
                     ELSE base
  IN  [ id            |-> "N" \o ToString(row.rowNumber) \o "-" \o ToString(col + 1),
        row           |-> row.rowNumber,
        col           |-> col + 1,
        headX         |-> row.start.x,
        headY         |-> row.start.y,
        headZ         |-> zOffset,
        tipX          |-> row.end.x,
        tipY          |-> row.end.y,
        tipZ          |-> zOffset,
        length        |-> row.nailLength,
        inclination   |-> row.inclination,
        elevation     |-> row.elevation,
        barDiameter   |-> params.barDiameter,
        drillDiameter |-> params.drillDiameter ]

\* faulty variant: the column loop stops one column early
RowNailsShort(params, row, rowIdx, nailsPerRow) ==
  IF nailsPerRow - 1 <= 0 THEN <<>>
  ELSE [c \in 1..(nailsPerRow - 1) |-> MakeNail(params, row, rowIdx, c - 1)]

\* for (col = 0; col < nailsPerRow; col++) of one row
RowNails(params, row, rowIdx, nailsPerRow) ==
  IF nailsPerRow <= 0 THEN <<>>
  ELSE [c \in 1..nailsPerRow |-> MakeNail(params, row, rowIdx, c - 1)]

\* rows.forEach((row, rowIdx) => ...)
RECURSIVE FanOut(_, _, _, _)
FanOut(params, rows, nailsPerRow, k) ==
  IF k > Len(rows) THEN <<>>
  ELSE RowNails(params, rows[k], k - 1, nailsPerRow)
       \o FanOut(params, rows, nailsPerRow, k + 1)

ErrorLayout(message) == [nails |-> <<>>, rows |-> <<>>, error |-> message]

\* faulty variant: the point-count check lets a single point through
TooFewPointsOnlyEmpty(terrainPoints) == Len(terrainPoints) < 1

\* terrainPoints.length < 2
TooFewPoints(terrainPoints) == Len(terrainPoints) < 2

\* faulty variant: the flat-terrain check is missing
IsFlatNever(slopeHeight) == FALSE

\* faulty variant: a slope height of exactly 0.5 counts as flat
IsFlatInclusive(slopeHeight) == slopeHeight <= 500

\* slopeHeight < 0.5
IsFlat(slopeHeight) == slopeHeight < 500

\* faulty variant: equal first and last row elevations are let through
OffsetsTooLargeStrict(firstRowElev, lastRowElev) == firstRowElev < lastRowElev

\* firstRowElev <= lastRowElev
OffsetsTooLarge(firstRowElev, lastRowElev) == firstRowElev <= lastRowElev

\* the body of generateLayout() for the values getParams() and getPoints()
\* gave it: the loop's outcome (returned, seen) and the Layout it returns
\* when it returns
LayoutFor(params, terrainPoints) ==
      IF TooFewPoints(terrainPoints)
      THEN [returned |-> TRUE, seen |-> <<>>, layout |-> ErrorLayout(ErrInsufficientTerrain)]
      ELSE
      LET minElev     == MinElevOf(terrainPoints)
          maxElev     == MaxElevOf(terrainPoints)
          slopeHeight == maxElev - minElev
      IN  IF IsFlat(slopeHeight)
          THEN [returned |-> TRUE, seen |-> <<>>, layout |-> ErrorLayout(ErrFlatTerrain)]
          ELSE
          LET firstRowElev == maxElev - params.topOffset
              lastRowElev  == minElev + params.bottomOffset
          IN  IF OffsetsTooLarge(firstRowElev, lastRowElev)
              THEN [returned |-> TRUE, seen |-> <<>>,
                    layout |-> ErrorLayout(ErrInvalidOffsets)]
              ELSE
              LET groundDirX  == GroundDirX(terrainPoints)
                  loop        == RowLoop(params, terrainPoints, groundDirX, lastRowElev,
                                         firstRowElev, 1, <<>>, <<>>)
                  nailsPerRow == NailsPerRow(params)
              IN  [ returned |-> loop.returned,
                    seen     |-> loop.seen,
                    layout   |->
                      [ nails       |-> FanOut(params, loop.rows, nailsPerRow, 1),
                        rows        |-> loop.rows,
                        nailsPerRow |-> nailsPerRow,
                        params      |-> params,
                        slopeHeight |-> slopeHeight,
                        warnings    |-> validateDesign(params, slopeHeight),
                        error       |-> NoError ] ]

\* generateLayout() reading the form f and the stored terrain
generateLayout(f, stored) == LayoutFor(getParams(f), getPoints(stored))

\* faulty variant: the escalated length is rounded down
AdjustedLengthFloor(nailLength) == ((nailLength * 12) \div 10000) * 1000

\* Math.ceil(nailLength * 1.2) in metres, nailLength in mm
AdjustedLength(nailLength) == ((nailLength * 12 + 9999) \div 10000) * 1000

\* applyPrescriptiveDesign(): the form after the Auto-design button, for the
\* form f and the stored terrain.  The fields it sets that getParams() does
\* not model (plateSize, plateThickness, steelGrade, centralizerSpacing,
\* corrosionProtection, centralizers) and the warnings it displays are left out.
applyPrescriptiveDesign(f, stored) ==
  LET terrainPoints == getPoints(stored)
  IN  IF Len(terrainPoints) < 2 THEN f
      ELSE
      LET slopeHeight == MaxElevOf(terrainPoints) - MinElevOf(terrainPoints)
      IN  IF slopeHeight < 500 THEN f
          ELSE
          LET slopeSegments  == getSlopeSegments(stored)
              steep          == \E i \in 1..Len(slopeSegments) : AngleAbove55(slopeSegments[i])
              prescriptive   == getPrescriptiveParams(slopeHeight)
              adjustedLength == IF steep THEN AdjustedLength(prescriptive.nailLength)
                                ELSE prescriptive.nailLength
          IN  [f EXCEPT !.nailLength    = adjustedLength,
                        !.inclination   = prescriptive.inclination,
                        !.barDiameter   = prescriptive.barDiameter,
                        !.drillDiameter = prescriptive.drillDiameter,
                        !.hSpacing      = prescriptive.hSpacing,
                        !.vSpacing      = prescriptive.vSpacing,
                        !.topOffset     = prescriptive.topOffset,
                        !.bottomOffset  = prescriptive.bottomOffset,
                        !.groutStrength = prescriptive.groutStrength,
                        !.patternType   = prescriptive.patternType]

\* the totals that carry Math.PI are the coefficient of pi, in kg and m^3
\* faulty variant: a Layout without nails is refused as well
NoQuantitiesForOrEmpty(lay) ==
  lay = Null \/ lay.error # NoError \/ Len(lay.nails) = 0

\* !layout || layout.error
NoQuantitiesFor(lay) == lay = Null \/ lay.error # NoError

\* faulty variant: the bar's cross-section is not taken out of the hole's
GroutAreaGrossHole(drillRadius, barRadius) == RatMul(drillRadius, drillRadius)

\* groutAreaPerM / Math.PI
GroutAreaPerM(drillRadius, barRadius) ==
  RatSub(RatMul(drillRadius, drillRadius), RatMul(barRadius, barRadius))

\* faulty variant: the diameter is not halved
BarRadiusAsDiameter(barDiameter) == Rat(barDiameter, 1000)

\* (params.barDiameter / 1000) / 2, in m
BarRadius(barDiameter) == Rat(barDiameter, 2000)

calculateQuantities(lay) ==
  IF NoQuantitiesFor(lay) THEN Null
  ELSE
  LET params             == lay.params
      totalNails         == Len(lay.nails)
      totalDrillLength   == totalNails * params.nailLength
      barRadius          == BarRadius(params.barDiameter)
      barArea            == RatMul(barRadius, barRadius)
      steelWeightPerNail == RatMul(RatMul(barArea, Rat(params.nailLength, 1000)),
                                   Rat(7850, 1))
      totalSteelWeight   == RatMul(steelWeightPerNail, Rat(totalNails, 1))
      drillRadius        == Rat(params.drillDiameter, 2000)
      groutAreaPerM      == GroutAreaPerM(drillRadius, barRadius)
      groutVolumePerNail == RatMul(groutAreaPerM, Rat(params.nailLength, 1000))
      totalGroutVolume   == RatMul(groutVolumePerNail, Rat(totalNails, 1))
  IN  [ totalNails       |-> totalNails,
        totalRows        |-> Len(lay.rows),
        nailsPerRow      |-> lay.nailsPerRow,
        totalDrillLength |-> totalDrillLength,
        totalSteelWeight |-> totalSteelWeight,
        totalGroutVolume |-> totalGroutVolume ]

(* --------------------------- input domains ----------------------------- *)

\* terrain coordinates drawn by the model, in mm: a face at x = 0 with
\* elevations 0, 0.25, 0.5 and 10 m, and the points (10, 0) and (10, 10)
XS == {0, 10000}

YS == {0, 250, 500, 10000}

TerrainPoint == {p \in [x : XS, y : YS] : p.x = 0 \/ p.y \in {0, 10000}}

\* every stored point sequence (in any order) of at most MaxPoints points
Terrains == UNION {[1..n -> TerrainPoint] : n \in 0..MaxPoints}

\* raw form values; 0 stands for a blank or zero field
BaseForm ==
  [ nailLength     |-> 6000,
    inclination    |-> 15,
    barDiameter    |-> 25,
    drillDiameter  |-> 100,
    hSpacing       |-> 1500,
    vSpacing       |-> 1500,
    topOffset      |-> 500,
    bottomOffset   |-> 500,
    patternType    |-> "rectangular",
    wallExtent     |-> 4000,
    groutStrength  |-> 30,
    variableLength |-> FALSE ]

GeometryForms ==
  { [BaseForm EXCEPT !.topOffset = t, !.bottomOffset = b, !.vSpacing = v] :
      t \in {500, 499, -1000}, b \in {0, 9500, -1000}, v \in {1500, 4000} }
  \cup { [BaseForm EXCEPT !.vSpacing = -1500] }

DirectionForms ==
  { [BaseForm EXCEPT !.nailLength = l, !.inclination = a] :
      l \in {6000, -6000}, a \in {15, 45, -10} }

FanOutForms ==
  { [BaseForm EXCEPT !.hSpacing = h, !.wallExtent = w, !.patternType = p] :
      h \in {1500, 2000, -1500}, w \in {4000, 3000, -4000}, p \in {"", "staggered"} }

\* bar and drill-hole sizes of the prescriptive table, and a longer nail
QuantityForms ==
  { [BaseForm EXCEPT !.barDiameter = s[1], !.drillDiameter = s[2], !.nailLength = l] :
      s \in {<<25, 100>>, <<32, 115>>, <<40, 150>>}, l \in {6000, 8000} }

\* a design that breaks the spacing, inclination and annulus rules
WarnForm ==
  [BaseForm EXCEPT !.inclination = 45, !.drillDiameter = 50,
                   !.hSpacing = 2500, !.vSpacing = 4000]

\* designs that differ only in the grout strength, which only the validator reads
ValidatorForms ==
  { [f EXCEPT !.groutStrength = g] : f \in {BaseForm, WarnForm}, g \in {30, 20, 10} }

\* a 25 m slope, above the 20 m limit of the prescriptive method
TallTerrains ==
  { <<[x |-> 0, y |-> 0], [x |-> 10000, y |-> 25000]>>,
    <<[x |-> 10000, y |-> 25000], [x |-> 0, y |-> 0]>> }

\* the inputs drawn: every terrain with every geometry and direction form,
\* the terrains of at most two points with every fan-out, quantity and
\* validator form, and the tall terrains with the designs of 4 m row spacing
Inputs ==
  (Terrains \X (GeometryForms \cup DirectionForms))
  \cup ({t \in Terrains : Len(t) <= 2}
          \X (FanOutForms \cup QuantityForms \cup ValidatorForms))
  \cup (TallTerrains \X {f \in ValidatorForms : f.vSpacing = 4000})

(* --------------------------- state machine ----------------------------- *)

\* qty before calculateQuantities has been called
NotCalled == [called |-> FALSE]

\* PreviewModule starts with layout = null; the terrain and the form hold
\* whatever the user has entered
\* the values of the state a specification does not use
\* TerrainModule's tool state as declared: draw mode, nothing grabbed
EditorIdle == mode = "draw" /\ selectedPointIndex = -1 /\ dragging = FALSE

CoreUnused == layout = Null /\ qty = NotCalled /\ visited = <<>> /\ pc = "idle"

SessionUnused == generatedFrom = Null /\ earlier = Null

CallsUnused == height = 0 /\ design = Null /\ advice = Null /\ report = Null

Init ==
  /\ \E in \in Inputs : points = in[1] /\ form = in[2]
  /\ EditorIdle
  /\ layout = Null
  /\ qty = NotCalled
  /\ visited = <<>>
  /\ pc = "idle"
  /\ SessionUnused
  /\ CallsUnused

\* PreviewModule.generate(): layout = NailsModule.generateLayout().  Either
\* the call returns and its Layout is stored, or its row loop never ends and
\* the page hangs with the old layout.
Generate ==
  /\ pc = "idle"
  /\ \E r \in {generateLayout(form, points)} :
        /\ visited' = r.seen
        /\ IF r.returned
           THEN layout' = r.layout /\ pc' = "generated"
           ELSE layout' = layout /\ pc' = "hung"
  /\ points' = StoredAfterGetPoints(points)
  /\ UNCHANGED <<editorVars, form, qty, sessionVars, callVars>>

\* NailsModule.calculateQuantities(layout) on the layout held
Quantities ==
  /\ pc \in {"idle", "generated"}
  /\ qty' = calculateQuantities(layout)
  /\ pc' = "done"
  /\ UNCHANGED <<points, editorVars, form, layout, visited, sessionVars, callVars>>

Next == Generate \/ Quantities

Spec == Init /\ [][Next]_vars

(* ------------- generateLayout's locals for the current inputs ---------- *)

formParams == getParams(form)

terrainNow == getPoints(points)

minElevNow == MinElevOf(terrainNow)

maxElevNow == MaxElevOf(terrainNow)

firstRowElevNow == maxElevNow - formParams.topOffset

lastRowElevNow == minElevNow + formParams.bottomOffset

(* ------------------------------ claims --------------------------------- *)

\* C1: a returned Layout never carries both an error and data: with an error
\* set, nails and rows are empty; and the error is set exactly when there are
\* fewer than 2 terrain points, or maxElev - minElev < 0.5, or
\* firstRowElev <= lastRowElev.
C1_ErrorOrData ==
  layout # Null =>
    /\ (layout.error # NoError => layout.nails = <<>> /\ layout.rows = <<>>)
    /\ (layout.error # NoError <=>
          \/ Len(terrainNow) < 2
          \/ maxElevNow - minElevNow < 500
          \/ firstRowElevNow <= lastRowElevNow)

C1_Witness ==
  /\ layout # Null
  /\ Len(terrainNow) = 3
  /\ maxElevNow - minElevNow >= 500
  /\ layout.error = ErrInvalidOffsets
  /\ layout.rows = <<>>

\* C2: with 0 or 1 terrain points generateLayout returns the
\* InsufficientTerrain error with nails = [] and rows = [], whatever the
\* parameters; the check comes first, so neither the FlatTerrain nor the
\* InvalidOffsets error is reported for such a terrain.
C2_InsufficientTerrainFirst ==
  (layout # Null /\ Len(points) < 2) =>
    /\ layout.error = ErrInsufficientTerrain
    /\ layout.nails = <<>>
    /\ layout.rows = <<>>

C2_Witness ==
  /\ layout # Null
  /\ Len(points) = 1
  /\ firstRowElevNow <= lastRowElevNow
  /\ layout.error = ErrInsufficientTerrain

\* C3: with at least 2 terrain points the FlatTerrain error is returned
\* exactly when maxElev - minElev < 0.5, whatever the offsets; a slope height
\* of exactly 0.5 does not give it.
C3_FlatTerrainStrict ==
  (layout # Null /\ Len(points) >= 2) =>
    (layout.error = ErrFlatTerrain <=> maxElevNow - minElevNow < 500)

C3_Witness ==
  /\ layout # Null
  /\ Len(points) >= 2
  /\ maxElevNow - minElevNow = 500
  /\ layout.error = NoError

\* C4: with at least 2 terrain points and slope height >= 0.5, a returned
\* Layout has the InvalidOffsets error when firstRowElev <= lastRowElev
\* (equality included) and error = null when firstRowElev > lastRowElev.
C4_InvalidOffsets ==
  (layout # Null /\ Len(points) >= 2 /\ maxElevNow - minElevNow >= 500) =>
    /\ (firstRowElevNow <= lastRowElevNow => layout.error = ErrInvalidOffsets)
    /\ (firstRowElevNow > lastRowElevNow => layout.error = NoError)

C4_Witness ==
  /\ layout # Null
  /\ Len(points) >= 2
  /\ maxElevNow - minElevNow >= 500
  /\ firstRowElevNow = lastRowElevNow
  /\ layout.error = ErrInvalidOffsets

\* C5: on a non-error input the loop tests firstRowElev, firstRowElev -
\* vSpacing, ... for as long as the elevation is >= lastRowElev (equality
\* included) and no further; the rows' elevations strictly decrease and lie
\* in [lastRowElev, firstRowElev]; terrain [(0,0),(10,10)] with offsets 0.5
\* and vSpacing 1.5 gives the 7 rows 9.5, 8, 6.5, 5, 3.5, 2, 0.5.
C5_RowElevations ==
  (layout # Null /\ layout.error = NoError) =>
    \A first \in {firstRowElevNow}, last \in {lastRowElevNow},
       vs \in {formParams.vSpacing}, rows \in {layout.rows} :
        /\ Len(visited) >= 1
        /\ \A i \in 1..Len(visited) :
              /\ visited[i] = first - (i - 1) * vs
              /\ visited[i] >= last
        /\ first - Len(visited) * vs < last
        /\ \A k \in 1..Len(rows) :
              /\ rows[k].elevation >= last
              /\ rows[k].elevation <= first
              /\ \E i \in 1..Len(visited) : rows[k].elevation = visited[i]
        /\ \A k \in 1..(Len(rows) - 1) : rows[k + 1].elevation < rows[k].elevation
        /\ ( /\ terrainNow = <<[x |-> 0, y |-> 0], [x |-> 10000, y |-> 10000]>>
             /\ formParams.topOffset = 500
             /\ formParams.bottomOffset = 500
             /\ vs = 1500 )
           => [k \in 1..Len(rows) |-> rows[k].elevation]
                = <<9500, 8000, 6500, 5000, 3500, 2000, 500>>

C5_Witness ==
  /\ layout # Null
  /\ layout.error = NoError
  /\ terrainNow = <<[x |-> 0, y |-> 0], [x |-> 10000, y |-> 10000]>>
  /\ formParams.topOffset = 500
  /\ formParams.bottomOffset = 500
  /\ formParams.vSpacing = 1500
  /\ Len(layout.rows) = 7
  /\ layout.rows[7].elevation = lastRowElevNow

\* C6: for a valid Layout, nailsPerRow = floor(wallExtent / hSpacing) + 1,
\* every row contributes exactly nailsPerRow nails, and calculateQuantities
\* reports totalNails = nails.length = rows.length * nailsPerRow.
C6_TotalNails ==
  (layout # Null /\ layout.error = NoError) =>
    LET rows  == layout.rows
        nails == layout.nails
        perRow(k) == Cardinality({n \in 1..Len(nails) : nails[n].row = rows[k].rowNumber})
    IN  /\ layout.nailsPerRow
             = FloorDiv(formParams.wallExtent, formParams.hSpacing) + 1
        /\ \A k \in 1..Len(rows) : perRow(k) = layout.nailsPerRow
        /\ Len(nails) = Len(rows) * layout.nailsPerRow
        /\ pc = "done" =>
             /\ qty # Null
             /\ qty.totalNails = Len(nails)
             /\ qty.totalNails = qty.totalRows * qty.nailsPerRow

\* C7: the row number and the elevation advance on every loop step; a step
\* whose intersection is null emits no Row and raises no error but uses up
\* its row number.  So each row has elevation = firstRowElev -
\* (rowNumber - 1) * vSpacing, row numbers strictly increase, and step i has
\* a row (numbered i) exactly when the terrain is intersected there.
C7_RowNumbering ==
  ( /\ layout # Null
    /\ Len(points) >= 2
    /\ maxElevNow - minElevNow >= 500
    /\ firstRowElevNow > lastRowElevNow ) =>
    \A tp \in {terrainNow}, first \in {firstRowElevNow}, rows \in {layout.rows} :
        /\ layout.error = NoError
        /\ \A k \in 1..Len(rows) :
              /\ rows[k].rowNumber \in 1..Len(visited)
              /\ rows[k].elevation
                   = first - (rows[k].rowNumber - 1) * formParams.vSpacing
        /\ \A k \in 1..(Len(rows) - 1) : rows[k].rowNumber < rows[k + 1].rowNumber
        /\ \A i \in 1..Len(visited) :
              (\E k \in 1..Len(rows) : rows[k].rowNumber = i)
                <=> getTerrainXAtElevation(tp, visited[i]) # NoFace

C7_Witness ==
  /\ layout # Null
  /\ layout.error = NoError
  /\ Len(layout.rows) >= 2
  /\ layout.rows[1].rowNumber = 2
  /\ Len(visited) > Len(layout.rows)

\* C8: getTerrainXAtElevation returns the value of the first consecutive pair
\* (ascending index) that qualifies, and null exactly when none does.  A pair
\* qualifies when min(y1,y2) - 0.001 <= e <= max(y1,y2) + 0.001 and either
\* |y2 - y1| < 0.001 (value: the midpoint (x1 + x2) / 2) or t = (e - y1) /
\* (y2 - y1) is in [-0.001, 1.001] (value: x1 + t * (x2 - x1)).  A bracketing
\* pair with t rejected does not stop the scan; later qualifying pairs do not
\* change the result.  Stated on every elevation the row loop tested.
C8_FirstQualifyingPair ==
  (layout # Null /\ layout.error = NoError) =>
    \A tp \in {terrainNow}, rows \in {layout.rows} :
    LET Brackets(i, e) ==
          /\ e >= Min2(tp[i].y, tp[i + 1].y) - 1
          /\ e <= Max2(tp[i].y, tp[i + 1].y) + 1
        T(i, e) == Rat(e - tp[i].y, tp[i + 1].y - tp[i].y)
        Qualifies(i, e) ==
          /\ Brackets(i, e)
          /\ \/ Abs(tp[i + 1].y - tp[i].y) < 1
             \/ RatLe(Rat(-1, 1000), T(i, e)) /\ RatLe(T(i, e), Rat(1001, 1000))
        Value(i, e) ==
          IF Abs(tp[i + 1].y - tp[i].y) < 1
          THEN Rat(tp[i].x + tp[i + 1].x, 2)
          ELSE RatAdd(Rat(tp[i].x, 1), RatMul(T(i, e), Rat(tp[i + 1].x - tp[i].x, 1)))
        Q(e) == {i \in 1..(Len(tp) - 1) : Qualifies(i, e)}
        First(e) == CHOOSE i \in Q(e) : \A j \in Q(e) : i <= j
    IN  \A s \in 1..Len(visited) :
          LET e == visited[s]
          IN  IF Q(e) = {}
              THEN \A k \in 1..Len(rows) : rows[k].elevation # e
              ELSE \E k \in 1..Len(rows) :
                     /\ rows[k].elevation = e
                     /\ rows[k].faceX = Value(First(e), e)

\* a bracketing first pair is rejected on t and the second pair gives the result
C8_Witness ==
  /\ layout # Null
  /\ layout.error = NoError
  /\ terrainNow = <<[x |-> 0, y |-> 0], [x |-> 0, y |-> 500], [x |-> 10000, y |-> 10000]>>
  /\ \E k \in 1..Len(layout.rows) :
        /\ layout.rows[k].elevation = 501
        /\ layout.rows[k].faceX = <<20, 19>>

C10_QuantitiesNull ==
  pc = "done" =>
    /\ qty = Null <=> (layout = Null \/ layout.error # NoError)
    /\ (layout # Null /\ layout.error = NoError) =>
          DOMAIN qty = {"totalNails", "totalRows", "nailsPerRow", "totalDrillLength",
                        "totalSteelWeight", "totalGroutVolume"}
    /\ (layout # Null /\ Len(points) = 1) => qty = Null

C10_Witness ==
  /\ pc = "done"
  /\ layout # Null
  /\ Len(points) = 1
  /\ layout.error = ErrInsufficientTerrain
  /\ qty = Null

\* C11: for every valid Layout, calculateQuantities reports totalGroutVolume =
\* totalNails * pi * (drillRadius^2 - barRadius^2) * nailLength, with
\* drillRadius = drillDiameter / 2000 and barRadius = barDiameter / 2000 taken
\* from layout.params, one size for all nails.  Stated on the coefficient of
\* pi, in m^3.
C11_GroutVolume ==
  (pc = "done" /\ layout # Null /\ layout.error = NoError) =>
    \A p \in {layout.params} :
      /\ qty # Null
      /\ qty.totalNails = Len(layout.nails)
      /\ \A n \in 1..Len(layout.nails) :
            /\ layout.nails[n].barDiameter = p.barDiameter
            /\ layout.nails[n].drillDiameter = p.drillDiameter
      /\ qty.totalGroutVolume =
           RatMul(Rat(qty.totalNails, 1),
                  RatMul(Rat(p.drillDiameter * p.drillDiameter
                               - p.barDiameter * p.barDiameter, 4000000),
                         Rat(p.nailLength, 1000)))

\* 21 nails of 6 m with a 32 mm bar in a 115 mm hole
C11_Witness ==
  /\ pc = "done"
  /\ layout # Null
  /\ layout.error = NoError
  /\ layout.params.barDiameter = 32
  /\ layout.params.drillDiameter = 115
  /\ qty.totalNails = 21
  /\ qty.totalGroutVolume = <<768663, 2000000>>

\* C17: the validator has no effect on generation.  For a non-error input the
\* Layout has error = null and warnings = validateDesign(params, maxElev -
\* minElev), empty or not; and the same input with only groutStrength changed
\* across the 20 MPa limit (so that the warning list differs) gives identical
\* rows, nails and nailsPerRow.
C17_ValidatorNoEffect ==
  ( /\ pc = "generated"
    /\ Len(points) >= 2
    /\ maxElevNow - minElevNow >= 500
    /\ firstRowElevNow > lastRowElevNow ) =>
    \A p \in {formParams}, tp \in {terrainNow} :
      /\ layout.error = NoError
      /\ layout.warnings = validateDesign(p, MaxElevOf(tp) - MinElevOf(tp))
      /\ \A other \in {LayoutFor([p EXCEPT !.groutStrength =
                                   IF p.groutStrength < 20 THEN 30 ELSE 10], tp)} :
            /\ other.returned
            /\ other.layout.error = NoError
            /\ other.layout.warnings # layout.warnings
            /\ other.layout.rows = layout.rows
            /\ other.layout.nails = layout.nails
            /\ other.layout.nailsPerRow = layout.nailsPerRow

\* seven of the nine rules fire (two pairs of rules exclude each other) and
\* the layout is complete
C17_Witness ==
  /\ pc = "generated"
  /\ points \in TallTerrains
  /\ form = [WarnForm EXCEPT !.groutStrength = 10]
  /\ layout.error = NoError
  /\ layout.warnings = <<"ratioBelowMin", "hSpacingOutsideRange", "vSpacingOutsideRange",
                         "inclinationAbove20", "annulusLow", "groutBelowMin",
                         "heightAboveLimit">>
  /\ Len(layout.rows) = 7
  /\ Len(layout.nails) = 14

(* ---------- direct calls of the advisor and of the validator ----------- *)

\* slope heights in mm: the table's boundaries, their neighbours, the 0.5 m
\* minimum of a non-flat terrain and heights above the table
Heights ==
  {500, 3000, 3001, 4000, 5000, 5001, 7000, 7001, 8000, 10000, 10001,
   15000, 15001, 20000, 20001, 25000}

\* getParams() of the default form
BaseDesign == getParams(BaseForm)

\* params values on, inside and outside the validator's limits
Designs ==
  { [BaseDesign EXCEPT !.nailLength = l, !.hSpacing = h, !.vSpacing = v,
                       !.inclination = a, !.barDiameter = s[1],
                       !.drillDiameter = s[2], !.groutStrength = g] :
      l \in {5999, 6000, 15000, 15001},
      h \in {999, 1000, 1500, 2001},
      v \in {999, 1500, 2000, 2001},
      a \in {4, 5, 15, 20, 21},
      s \in {<<25, 100>>, <<40, 100>>, <<41, 100>>},
      g \in {19, 20, 30} }

CallInit ==
  /\ height \in Heights
  /\ design \in Designs
  /\ advice = Null
  /\ report = Null
  /\ points = <<>>
  /\ EditorIdle
  /\ form = BaseForm
  /\ CoreUnused
  /\ SessionUnused

\* NailsModule.getPrescriptiveParams(height)
Advise ==
  /\ advice = Null
  /\ advice' = getPrescriptiveParams(height)
  /\ UNCHANGED <<points, editorVars, form, coreVars, sessionVars, height, design, report>>

\* NailsModule.validateDesign(design, height); report holds the returned array
Validate ==
  /\ report = Null
  /\ report' = [warnings |-> validateDesign(design, height)]
  /\ UNCHANGED <<points, editorVars, form, coreVars, sessionVars, height, design, advice>>

CallNext == Advise \/ Validate

CallSpec == CallInit /\ [][CallNext]_vars

\* C12: getPrescriptiveParams never refuses: for every slope height it
\* returns the defaults overlaid with the first table entry, in ascending
\* maxHeight order, whose maxHeight >= slopeHeight; the boundary heights 3, 5,
\* 7, 10, 15 and 20 select their own entry; above 20 it returns the last
\* entry's values (nail length 16, bar 40, drill 150).
C12_FirstFittingRange ==
  advice # Null =>
    LET entry == CASE height <= 3000  -> <<3000, 25, 100, 200, 15, 2>>
                   [] height > 3000  /\ height <= 5000  -> <<4000, 25, 100, 200, 15, 3>>
                   [] height > 5000  /\ height <= 7000  -> <<6000, 25, 100, 200, 20, 4>>
                   [] height > 7000  /\ height <= 10000 -> <<8000, 32, 115, 250, 20, 5>>
                   [] height > 10000 /\ height <= 15000 -> <<12000, 32, 115, 300, 20, 7>>
                   [] height > 15000 -> <<16000, 40, 150, 300, 25, 9>>
    IN  advice =
          [ inclination         |-> 15,
            hSpacing            |-> 1500,
            vSpacing            |-> 1500,
            topOffset           |-> 500,
            bottomOffset        |-> 500,
            steelGrade          |-> 500,
            groutStrength       |-> 30,
            centralizerSpacing  |-> 1000,
            corrosionProtection |-> "class2",
            facingType          |-> "shotcrete",
            patternType         |-> "staggered",
            nailLength          |-> entry[1],
            barDiameter         |-> entry[2],
            drillDiameter       |-> entry[3],
            plateSize           |-> entry[4],
            plateThickness      |-> entry[5],
            minRows             |-> entry[6] ]

\* the boundary height 5 selects its own entry
C12_Witness ==
  /\ advice # Null
  /\ height = 5000
  /\ advice.nailLength = 4000
  /\ advice.minRows = 3

\* C13: the recommended nailLength is non-decreasing in the slope height: for
\* h1 <= h2, getPrescriptiveParams(h1).nailLength <=
\* getPrescriptiveParams(h2).nailLength; h = 3 gives 3, h = 4 gives 4 and
\* h = 20 gives 16.
C13_NailLengthMonotone ==
  advice # Null =>
    /\ \A h2 \in Heights :
          /\ height <= h2 => advice.nailLength <= getPrescriptiveParams(h2).nailLength
          /\ h2 <= height => getPrescriptiveParams(h2).nailLength <= advice.nailLength
    /\ height = 3000 => advice.nailLength = 3000
    /\ height = 4000 => advice.nailLength = 4000
    /\ height = 20000 => advice.nailLength = 16000

C13_Witness ==
  /\ advice # Null
  /\ height = 4000
  /\ advice.nailLength = 4000
  /\ getPrescriptiveParams(3000).nailLength = 3000
  /\ getPrescriptiveParams(20000).nailLength = 16000

\* C14: above the table ceiling (slope height > 20) getPrescriptiveParams
\* returns the last entry's recommendation with no error or warning in it,
\* and validateDesign's result contains the over-height warning, whatever the
\* params; for a slope height <= 20 that warning is absent.
C14_OverHeight ==
  /\ (advice # Null /\ height > 20000) =>
        /\ advice = getPrescriptiveParams(20000)
        /\ advice.nailLength = 16000
        /\ advice.barDiameter = 40
        /\ advice.drillDiameter = 150
        /\ DOMAIN advice \cap {"error", "warning", "warnings"} = {}
  /\ report # Null =>
        ((\E i \in 1..Len(report.warnings) : report.warnings[i] = "heightAboveLimit")
           <=> height > 20000)

\* a 25 m slope: the advisor caps silently, the validator reports only the height
C14_Witness ==
  /\ advice # Null
  /\ report # Null
  /\ height = 25000
  /\ advice.nailLength = 16000
  /\ report.warnings = <<"heightAboveLimit">>

\* C15: validateDesign returns the empty sequence exactly when every rule
\* passes: 0.6 <= nailLength / slopeHeight <= 1.5, 1.0 <= hSpacing <= 2.0,
\* 1.0 <= vSpacing <= 2.0, 5 <= inclination <= 20, drillDiameter /
\* barDiameter >= 2.5, groutStrength >= 20 and slopeHeight <= 20; a value on
\* a limit passes.  It is empty for nailLength 6, spacings 1.5, inclination
\* 15, bar 25, drill 100, grout 30 at slope height 8.
C15_EmptyIffAllPass ==
  report # Null =>
    /\ report.warnings = <<>> <=>
          /\ design.nailLength * 10 >= 6 * height
          /\ design.nailLength * 10 <= 15 * height
          /\ design.hSpacing >= 1000 /\ design.hSpacing <= 2000
          /\ design.vSpacing >= 1000 /\ design.vSpacing <= 2000
          /\ design.inclination >= 5 /\ design.inclination <= 20
          /\ design.drillDiameter * 10 >= 25 * design.barDiameter
          /\ design.groutStrength >= 20
          /\ height <= 20000
    /\ ( /\ height = 8000
         /\ design = [BaseDesign EXCEPT !.nailLength = 6000, !.hSpacing = 1500,
                                       !.vSpacing = 1500, !.inclination = 15,
                                       !.barDiameter = 25, !.drillDiameter = 100,
                                       !.groutStrength = 30] )
       => report.warnings = <<>>

\* every value on its limit: ratio 0.6, spacings 1.0 and 2.0, inclination 20,
\* drill / bar 2.5, grout 20
C15_Witness ==
  /\ report # Null
  /\ report.warnings = <<>>
  /\ height = 10000
  /\ design.nailLength = 6000
  /\ design.hSpacing = 1000
  /\ design.vSpacing = 2000
  /\ design.inclination = 20
  /\ design.barDiameter = 40
  /\ design.drillDiameter = 100
  /\ design.groutStrength = 20

\* C16: the nine rules are evaluated independently, none depending on whether
\* an earlier one fired, and the result lists the warnings of the rules that
\* fired in the fixed order: too short, unnecessarily long, hSpacing range,
\* vSpacing range, too shallow, above 20 degrees, insufficient annulus, grout
\* below minimum, over-height.
C16_IndependentOrdered ==
  report # Null =>
    LET Order == <<"ratioBelowMin", "ratioAboveTypical", "hSpacingOutsideRange",
                   "vSpacingOutsideRange", "inclinationBelowMin", "inclinationAbove20",
                   "annulusLow", "groutBelowMin", "heightAboveLimit">>
        Fires(tag) ==
          CASE tag = "ratioBelowMin"        -> design.nailLength * 10 < 6 * height
            [] tag = "ratioAboveTypical"    -> design.nailLength * 10 > 15 * height
            [] tag = "hSpacingOutsideRange" -> design.hSpacing < 1000 \/ design.hSpacing > 2000
            [] tag = "vSpacingOutsideRange" -> design.vSpacing < 1000 \/ design.vSpacing > 2000
            [] tag = "inclinationBelowMin"  -> design.inclination < 5
            [] tag = "inclinationAbove20"   -> design.inclination > 20
            [] tag = "annulusLow"           -> design.drillDiameter * 10 < 25 * design.barDiameter
            [] tag = "groutBelowMin"        -> design.groutStrength < 20
            [] tag = "heightAboveLimit"     -> height > 20000
    IN  report.warnings = SelectSeq(Order, Fires)

\* both spacing rules fire together with rules before and after them
C16_Witness ==
  /\ report # Null
  /\ report.warnings = <<"ratioBelowMin", "hSpacingOutsideRange", "vSpacingOutsideRange",
                "inclinationAbove20", "annulusLow", "groutBelowMin", "heightAboveLimit">>
  /\ design.hSpacing = 999
  /\ design.vSpacing = 2001

(* --------------------- editing the terrain profile --------------------- *)

\* largest x (mm) up to which "Add point" is followed; each use adds 1 m to
\* the last point's x
MaxTableX == 2000

\* canvas and table coordinates drawn by the model, in mm
EditXS == {0, 1000}

EditYS == {0, 500}

EditPoint == [x : EditXS, y : EditYS]

\* a CSV line that is skipped: a header, or a field that does not parse
BadRow == [bad |-> TRUE]

\* CSV files of one or two lines
CsvFiles ==
  LET Rows == {[x |-> 1000, y |-> 500], [x |-> 0, y |-> 0], BadRow}
  IN  UNION {[1..n -> Rows] : n \in 1..2}

\* the points loadSample() stores
SamplePoints ==
  << [x |-> 0, y |-> 0], [x |-> 2000, y |-> 0], [x |-> 3000, y |-> 1000],
     [x |-> 5000, y |-> 4000], [x |-> 6000, y |-> 6000], [x |-> 7000, y |-> 8000],
     [x |-> 8000, y |-> 9500], [x |-> 9000, y |-> 10500], [x |-> 10000, y |-> 11000],
     [x |-> 12000, y |-> 11000], [x |-> 15000, y |-> 11000] >>

\* terrains of saved projects, as App hands them to setPoints() (never
\* empty), all stored out of x order: a flat profile, a 0.5 m slope and a
\* 10 m slope
ProjectTerrains ==
  { <<[x |-> 1000, y |-> 0], [x |-> 0, y |-> 0]>>,
    <<[x |-> 0, y |-> 0], [x |-> 1000, y |-> 500], [x |-> 0, y |-> 500]>>,
    <<[x |-> 10000, y |-> 10000], [x |-> 0, y |-> 0]>> }

\* findNearestPoint(): -1, or the 0-based index of a point under the pointer;
\* of points at the same place the first one is found
NearestPoint(stored) ==
  {-1} \cup {k - 1 : k \in {i \in 1..Len(stored) :
                              \A j \in 1..(i - 1) : stored[j] # stored[i]}}

TerrainInit ==
  /\ points = <<>>
  /\ EditorIdle
  /\ form = BaseForm
  /\ CoreUnused
  /\ SessionUnused
  /\ CallsUnused

\* setMode(m)
SetMode ==
  /\ \E m \in {"draw", "select"} : mode' = m
  /\ UNCHANGED <<points, selectedPointIndex, dragging, form, coreVars, sessionVars, callVars>>

\* onMouseDown() in draw mode: the rounded world position is pushed
OnMouseDownDraw ==
  /\ mode = "draw"
  /\ Len(points) < MaxPoints
  /\ \E world \in EditPoint : points' = Append(points, world)
  /\ UNCHANGED <<editorVars, form, coreVars, sessionVars, callVars>>

\* onMouseDown() in select mode: a point under the pointer is grabbed
OnMouseDownSelect ==
  /\ mode = "select"
  /\ \E idx \in NearestPoint(points) :
        /\ selectedPointIndex' = idx
        /\ dragging' = (dragging \/ idx >= 0)
  /\ UNCHANGED <<points, mode, form, coreVars, sessionVars, callVars>>

\* onMouseMove() while dragging: the grabbed point takes the rounded world
\* position.  (Without a grabbed point the handler only updates the hover
\* display; with an index past the end it throws before changing anything.)
OnMouseMove ==
  /\ mode = "select"
  /\ dragging
  /\ selectedPointIndex >= 0
  /\ selectedPointIndex < Len(points)
  /\ Len(points) <= MaxPoints
  /\ \E world \in EditPoint :
        points' = [points EXCEPT ![selectedPointIndex + 1] = world]
  /\ UNCHANGED <<editorVars, form, coreVars, sessionVars, callVars>>

\* onMouseUp() (also onTouchEnd)
OnMouseUp ==
  /\ dragging' = FALSE
  /\ UNCHANGED <<points, mode, selectedPointIndex, form, coreVars, sessionVars, callVars>>

\* onMouseLeave()
OnMouseLeave ==
  /\ dragging' = FALSE
  /\ UNCHANGED <<points, mode, selectedPointIndex, form, coreVars, sessionVars, callVars>>

\* the change handler of a table cell: points[idx][field] = parseFloat(value) || 0
TableEdit ==
  /\ Len(points) <= MaxPoints
  /\ \E idx \in 1..Len(points) :
        \/ \E v \in EditXS : points' = [points EXCEPT ![idx].x = OrDefault(v, 0)]
        \/ \E v \in EditYS : points' = [points EXCEPT ![idx].y = OrDefault(v, 0)]
  /\ UNCHANGED <<editorVars, form, coreVars, sessionVars, callVars>>

\* the delete button of a table row: points.splice(idx, 1)
DeleteRow ==
  /\ Len(points) <= MaxPoints
  /\ \E idx \in 1..Len(points) :
        points' = SubSeq(points, 1, idx - 1) \o SubSeq(points, idx + 1, Len(points))
  /\ UNCHANGED <<editorVars, form, coreVars, sessionVars, callVars>>

\* addPointFromTable(): 1 m to the right of the last stored point
AddPointFromTable ==
  /\ Len(points) < MaxPoints
  /\ \E lastPt \in {IF Len(points) > 0 THEN points[Len(points)] ELSE [x |-> 0, y |-> 0]} :
        /\ lastPt.x + 1000 <= MaxTableX
        /\ points' = Append(points, [x |-> lastPt.x + 1000, y |-> lastPt.y])
  /\ UNCHANGED <<editorVars, form, coreVars, sessionVars, callVars>>

\* sortPointsByX(): the stored array is sorted in place
SortPointsByX ==
  /\ points' = SortByX(points)
  /\ UNCHANGED <<editorVars, form, coreVars, sessionVars, callVars>>

\* importCSV(): every line that parses to two numbers is pushed
ImportCSV ==
  /\ \E file \in CsvFiles :
        \E parsed \in {SelectSeq(file, LAMBDA row : row # BadRow)} :
          /\ Len(points) + Len(parsed) <= MaxPoints
          /\ points' = points \o parsed
  /\ UNCHANGED <<editorVars, form, coreVars, sessionVars, callVars>>

\* clearAll()
ClearAll ==
  /\ points' = <<>>
  /\ selectedPointIndex' = -1
  /\ UNCHANGED <<mode, dragging, form, coreVars, sessionVars, callVars>>

\* loadSample()
LoadSample ==
  /\ points' = SamplePoints
  /\ UNCHANGED <<editorVars, form, coreVars, sessionVars, callVars>>

\* setPoints(pts): a copy of every point of pts, in the order of pts
SetPoints ==
  /\ \E pts \in ProjectTerrains : points' = [i \in 1..Len(pts) |-> [x |-> pts[i].x, y |-> pts[i].y]]
  /\ UNCHANGED <<editorVars, form, coreVars, sessionVars, callVars>>

TerrainNext ==
  \/ SetMode
  \/ OnMouseDownDraw
  \/ OnMouseDownSelect
  \/ OnMouseMove
  \/ OnMouseUp
  \/ OnMouseLeave
  \/ TableEdit
  \/ DeleteRow
  \/ AddPointFromTable
  \/ SortPointsByX
  \/ ImportCSV
  \/ ClearAll
  \/ LoadSample
  \/ SetPoints

TerrainSpec == TerrainInit /\ [][TerrainNext]_vars

\* C20: after any sequence of terrain edits (a click, a drag, a table edit,
\* "Add point", a CSV import, the sample, setPoints, clearing), whether or not
\* the stored points are in order, the sequence getPoints() returns is sorted
\* ascending by x and is a permutation of the stored points.
C20_GetPointsSorted ==
  \A r \in {getPoints(points)} :
    /\ Len(r) = Len(points)
    /\ \A i \in 1..(Len(r) - 1) : r[i].x <= r[i + 1].x
    /\ \A p \in {points[i] : i \in 1..Len(points)} \cup {r[i] : i \in 1..Len(r)} :
          Cardinality({i \in 1..Len(points) : points[i] = p})
            = Cardinality({i \in 1..Len(r) : r[i] = p})

\* three stored points out of order, one of them twice
C20_Witness ==
  /\ Len(points) = 3
  /\ points[1].x > points[2].x
  /\ points[3] = points[1]
  /\ getPoints(points) = <<points[2], points[1], points[3]>>

(* ------------- a session: edit, auto-design, generate again ------------ *)

\* form values the user types in: the defaults, whose offsets leave no room
\* for a row on a 0.5 m slope, and small offsets that do
SessionForms ==
  { BaseForm,
    [BaseForm EXCEPT !.topOffset = 100, !.bottomOffset = 100] }

\* the user changes the nail parameter form
EditForm ==
  /\ \E f \in SessionForms : form' = f
  /\ UNCHANGED <<points, editorVars, coreVars, sessionVars, callVars>>

\* the Auto-design button: applyPrescriptiveDesign() reads the terrain through
\* getPoints() and getSlopeSegments() and fills in the form
ApplyPrescriptiveDesign ==
  /\ points' = StoredAfterGetPoints(StoredAfterGetPoints(points))
  /\ form' = applyPrescriptiveDesign(form, points)
  /\ UNCHANGED <<editorVars, coreVars, sessionVars, callVars>>

\* PreviewModule.generate() at any time of the session.  generatedFrom
\* records what this call read; the call it replaces is either remembered as
\* earlier or forgotten, so earlier is any one of the calls made before.
Regenerate ==
  /\ pc # "hung"
  /\ points' = StoredAfterGetPoints(points)
  /\ generatedFrom' = [points |-> points, form |-> form]
  /\ \/ earlier' = earlier
     \/ /\ generatedFrom # Null
        /\ earlier' = [points |-> generatedFrom.points, form |-> generatedFrom.form,
                       layout |-> layout]
  /\ UNCHANGED <<editorVars, form, qty, callVars>>
  /\ \E r \in {generateLayout(form, points)} :
        /\ visited' = r.seen
        /\ IF r.returned
           THEN layout' = r.layout /\ pc' = "generated"
           ELSE layout' = layout /\ pc' = "hung"

SessionNext ==
  \/ SetPoints
  \/ LoadSample
  \/ ClearAll
  \/ EditForm
  \/ ApplyPrescriptiveDesign
  \/ Regenerate

SessionSpec == TerrainInit /\ [][SessionNext]_vars

C19_TerrainReadOnly ==
  [][points' # points => ~(Regenerate \/ ApplyPrescriptiveDesign)]_vars

\* generated from a terrain stored out of x order, with the auto-designed
\* form; the stored order is still the one that was read
C19_Witness ==
  /\ pc = "generated"
  /\ layout.error = NoError
  /\ generatedFrom.points = points
  /\ getPoints(points) # points
  /\ generatedFrom.form = form
  /\ form.patternType = "staggered"
  /\ form.nailLength = 8000

(* ------------- generate: staggering, fan-out, numbering ---------------- *)

\* staggered designs whose rows start 0.5 m below the crest and end 0.5 m
\* above the toe, or 1 mm from both, or whose first tested elevation lies 1 m
\* above the crest (topOffset = -1)
CoreLayoutForms ==
  { [BaseForm EXCEPT !.patternType = "staggered", !.topOffset = o[1],
                     !.bottomOffset = o[2], !.vSpacing = v] :
      o \in {<<500, 500>>, <<1, 1>>, <<-1000, 500>>}, v \in {1500, 4000} }

\* both patterns, with the variable-length box ticked or not, a wall extent
\* of either sign, and a bottom offset of 10.5 m that leaves a 10 m slope
\* without a row
LayoutForms ==
  { [BaseForm EXCEPT !.patternType = p, !.topOffset = t, !.bottomOffset = b,
                     !.variableLength = vl, !.wallExtent = w] :
      p \in {"", "staggered"}, t \in {500, -1000}, b \in {500, 10500},
      vl \in BOOLEAN, w \in {4000, -4000} }

\* every terrain with the core forms, the terrains of at most two points with
\* the others and with the bar, hole and nail sizes of QuantityForms
LayoutInputs ==
  (Terrains \X CoreLayoutForms)
  \cup ({t \in Terrains : Len(t) <= 2} \X (LayoutForms \cup QuantityForms))

LayoutInit ==
  /\ \E in \in LayoutInputs : points = in[1] /\ form = in[2]
  /\ EditorIdle
  /\ CoreUnused
  /\ SessionUnused
  /\ CallsUnused

LayoutSpec == LayoutInit /\ [][Next]_vars

\* C21: in a staggered layout the half-spacing shift goes by the row's 0-based
\* position among the emitted rows, not by its rowNumber: the nail of column c
\* (0-based) of a row at an odd position has z = -wallExtent/2 + c * hSpacing
\* + hSpacing/2, that of a row at an even position, and of any row of a
\* rectangular layout, has z = -wallExtent/2 + c * hSpacing.  So consecutive
\* emitted rows alternate also after a skipped elevation.
C21_StaggerByPosition ==
  (layout # Null /\ layout.error = NoError) =>
    \A p \in {formParams}, rows \in {layout.rows}, nails \in {layout.nails} :
      \A k \in 1..Len(rows) :
        \A n \in 1..Len(nails) :
          nails[n].row = rows[k].rowNumber =>
            LET plain == RatAdd(Rat(-p.wallExtent, 2), Rat((nails[n].col - 1) * p.hSpacing, 1))
            IN  /\ nails[n].headZ =
                     IF p.patternType = "staggered" /\ (k - 1) % 2 = 1
                     THEN RatAdd(plain, Rat(p.hSpacing, 2))
                     ELSE plain
                /\ nails[n].tipZ = nails[n].headZ

\* the first elevation was skipped: the row numbered 3 is the second emitted
\* row and is shifted, the row numbered 2 is not
C21_Witness ==
  /\ layout # Null
  /\ layout.error = NoError
  /\ formParams.patternType = "staggered"
  /\ formParams.wallExtent = 4000
  /\ Len(layout.rows) >= 3
  /\ layout.rows[1].rowNumber = 2
  /\ layout.rows[2].rowNumber = 3
  /\ layout.nailsPerRow = 3
  /\ layout.nails[1].row = 2
  /\ layout.nails[1].headZ = <<-2000, 1>>
  /\ layout.nails[4].row = 3
  /\ layout.nails[4].headZ = <<-1250, 1>>
  /\ layout.nails[7].headZ = <<-2000, 1>>

\* C22: every nail of a valid Layout comes from exactly one emitted row and one
\* column c in [0, nailsPerRow): its id is N{rowNumber}-{c+1}, its row field
\* the row's rowNumber, its col c+1, its head the row's start and its tip the
\* row's end, head and tip at the same z, its length, inclination and
\* elevation the row's.  The nails are in row order and then column order, and
\* every column of every emitted row is there.
C22_NailPerRowAndColumn ==
  (layout # Null /\ layout.error = NoError) =>
    \A rows \in {layout.rows}, nails \in {layout.nails},
       per \in {Max2(layout.nailsPerRow, 0)} :
      /\ Len(nails) = Len(rows) * per
      /\ \A k \in 1..Len(rows) :
           \A c \in 0..(per - 1) :
             \A nail \in {nails[(k - 1) * per + c + 1]} :
               /\ nail.id = "N" \o ToString(rows[k].rowNumber) \o "-" \o ToString(c + 1)
               /\ nail.row = rows[k].rowNumber
               /\ nail.col = c + 1
               /\ nail.headX = rows[k].start.x
               /\ nail.headY = rows[k].start.y
               /\ nail.tipX = rows[k].end.x
               /\ nail.tipY = rows[k].end.y
               /\ nail.tipZ = nail.headZ
               /\ nail.length = rows[k].nailLength
               /\ nail.inclination = rows[k].inclination
               /\ nail.elevation = rows[k].elevation

\* 7 rows of 3 nails: the fourth nail is column 1 of row 2, the last one
\* column 3 of row 7
C22_Witness ==
  /\ layout # Null
  /\ layout.error = NoError
  /\ Len(layout.rows) = 7
  /\ layout.nailsPerRow = 3
  /\ Len(layout.nails) = 21
  /\ layout.nails[4].id = "N2-1"
  /\ layout.nails[4].elevation = 8000
  /\ layout.nails[21].id = "N7-3"
  /\ layout.nails[21].headY = <<500, 1>>

\* C23: calculateQuantities computes every total as the uniform per-nail value
\* times totalNails, from the one nailLength, barDiameter and drillDiameter of
\* layout.params: totalDrillLength = totalNails * nailLength, totalSteelWeight
\* = totalNails * pi * (barDiameter / 2000)^2 * nailLength * 7850 (stated on
\* the coefficient of pi, nailLength in m), totalRows = rows.length and
\* nailsPerRow is the Layout's; a Layout without rows gives totals of zero,
\* not null.
C23_UniformTotals ==
  (pc = "done" /\ layout # Null /\ layout.error = NoError) =>
    \A p \in {layout.params} :
      /\ qty # Null
      /\ qty.totalNails = Len(layout.nails)
      /\ qty.totalRows = Len(layout.rows)
      /\ qty.nailsPerRow = layout.nailsPerRow
      /\ qty.totalDrillLength = qty.totalNails * p.nailLength
      /\ qty.totalSteelWeight =
           RatMul(Rat(qty.totalNails * p.barDiameter * p.barDiameter * 157, 80000),
                  Rat(p.nailLength, 1000))
      /\ Len(layout.rows) = 0 =>
           /\ qty.totalNails = 0
           /\ qty.totalRows = 0
           /\ qty.totalDrillLength = 0
           /\ qty.totalSteelWeight = <<0, 1>>
           /\ qty.totalGroutVolume = <<0, 1>>

\* 21 nails of 8 m with a 32 mm bar: 168 m drilled, pi * 337.6128 kg of steel
C23_Witness ==
  /\ pc = "done"
  /\ layout # Null
  /\ layout.error = NoError
  /\ layout.params.barDiameter = 32
  /\ layout.params.nailLength = 8000
  /\ qty.totalNails = 21
  /\ qty.totalRows = 7
  /\ qty.nailsPerRow = 3
  /\ qty.totalDrillLength = 168000
  /\ qty.totalSteelWeight = <<211008, 625>>

\* a valid Layout whose only tested elevation is above the crest
C23_WitnessNoRows ==
  /\ pc = "done"
  /\ layout # Null
  /\ layout.error = NoError
  /\ Len(visited) = 1
  /\ Len(layout.rows) = 0
  /\ qty # Null
  /\ qty.totalNails = 0
  /\ qty.nailsPerRow = 3

(* ------------------- the Auto-design button alone ---------------------- *)

\* slope heights in mm: below the 0.5 m minimum, the table's boundaries and
\* their neighbours, and heights above the table
DesignHeights ==
  {400, 500, 2000, 3000, 3001, 5000, 5001, 7000, 7001, 10000, 10001,
   15000, 15001, 20000, 20001, 25000}

\* two-point terrains of height h: rising and falling at 45 degrees, and a
\* vertical face stored bottom first and top first
SlopesOfHeight(h) ==
  { <<[x |-> 0, y |-> 0], [x |-> h, y |-> h]>>,
    <<[x |-> 0, y |-> h], [x |-> h, y |-> 0]>>,
    <<[x |-> 0, y |-> 0], [x |-> 0, y |-> h]>>,
    <<[x |-> 0, y |-> h], [x |-> 0, y |-> 0]>> }

\* segments next to 55 degrees: a rise or fall of 1.428 (54.997 degrees) and
\* of 1.429 (55.016 degrees) per unit run
ThresholdSlopes ==
  { <<[x |-> 0, y |-> 0], [x |-> 1000 * k, y |-> r * k]>> : k \in {1, 5, 10}, r \in {1428, 1429} }
  \cup
  { <<[x |-> 0, y |-> r * k], [x |-> 1000 * k, y |-> 0]>> : k \in {1, 5, 10}, r \in {1428, 1429} }

\* three points, stored in and out of x order: a gentle segment and a steep
\* one, the steep one rising or falling; a single point; no point
MixedSlopes ==
  { <<[x |-> 0, y |-> 0], [x |-> 2000, y |-> 1000], [x |-> 2000, y |-> 4000]>>,
    <<[x |-> 2000, y |-> 4000], [x |-> 0, y |-> 0], [x |-> 2000, y |-> 1000]>>,
    <<[x |-> 0, y |-> 4000], [x |-> 1000, y |-> 0], [x |-> 9000, y |-> 4000]>>,
    <<[x |-> 0, y |-> 0], [x |-> 4000, y |-> 4000], [x |-> 9000, y |-> 8000]>>,
    <<[x |-> 0, y |-> 0]>>,
    <<>> }

DesignTerrains ==
  UNION {SlopesOfHeight(h) : h \in DesignHeights} \cup ThresholdSlopes \cup MixedSlopes

DesignInit ==
  /\ points \in DesignTerrains
  /\ form \in SessionForms
  /\ EditorIdle
  /\ CoreUnused
  /\ SessionUnused
  /\ CallsUnused

DesignNext == ApplyPrescriptiveDesign

DesignSpec == DesignInit /\ [][DesignNext]_vars

\* the terrain statistics applyPrescriptiveDesign derives, restated: the slope
\* height, and whether some consecutive pair of the x-sorted points is steeper
\* than 55 degrees either way
slopeHeightNow == maxElevNow - minElevNow

steepNow ==
  \E i \in 1..(Len(terrainNow) - 1) :
    LET dx == terrainNow[i + 1].x - terrainNow[i].x
        dy == terrainNow[i + 1].y - terrainNow[i].y
    IN  dy * 1000 > 1428 * dx \/ (-dy) * 1000 > 1428 * dx

\* the design table's nail length (mm) for a slope height (mm)
TableLength(h) ==
  CASE h <= 3000 -> 3000
    [] h > 3000  /\ h <= 5000  -> 4000
    [] h > 5000  /\ h <= 7000  -> 6000
    [] h > 7000  /\ h <= 10000 -> 8000
    [] h > 10000 /\ h <= 15000 -> 12000
    [] h > 15000 -> 16000

\* the Auto-design button has filled in the form (no early return)
designApplies == Len(points) >= 2 /\ slopeHeightNow >= 500

\* C24: when the largest absolute segment angle of the terrain is above 55
\* degrees the nail length applied is ceil(1.2 * table length), a whole number
\* of metres, and the table length unchanged when it is 55 degrees or less;
\* every other recommended parameter is the one getPrescriptiveParams returns
\* either way, and getPrescriptiveParams returns the table length itself.
C24_SteepnessEscalation ==
  [][(designApplies /\ ApplyPrescriptiveDesign) =>
       \A h \in {slopeHeightNow}, rec \in {getPrescriptiveParams(slopeHeightNow)} :
         /\ rec.nailLength = TableLength(h)
         /\ form'.nailLength % 1000 = 0
         /\ IF steepNow
            THEN /\ form'.nailLength * 10 >= 12 * TableLength(h)
                 /\ (form'.nailLength - 1000) * 10 < 12 * TableLength(h)
            ELSE form'.nailLength = TableLength(h)
         /\ \A k \in {"inclination", "barDiameter", "drillDiameter", "hSpacing", "vSpacing",
                      "topOffset", "bottomOffset", "groutStrength", "patternType"} :
              form'[k] = rec[k]
         /\ \A k \in {"wallExtent", "variableLength"} : form'[k] = form[k]
    ]_vars

\* a 10 m slope with a falling vertical face: 8 m in the table, 10 m applied,
\* with the 32 mm bar and 115 mm hole of the 8 m entry
C24_Witness ==
  /\ points = <<[x |-> 0, y |-> 10000], [x |-> 0, y |-> 0]>>
  /\ steepNow
  /\ getPrescriptiveParams(slopeHeightNow).nailLength = 8000
  /\ form.nailLength = 10000
  /\ form.barDiameter = 32
  /\ form.drillDiameter = 115
  /\ form.patternType = "staggered"

\* a slope of 54.997 degrees keeps the table length
C24_WitnessGentle ==
  /\ points = <<[x |-> 0, y |-> 7140], [x |-> 5000, y |-> 0]>>
  /\ ~steepNow
  /\ form.nailLength = 8000
  /\ form.patternType = "staggered"

\* C30: for every slope height and every steepness the nail length the
\* Auto-design button applies is inside the table's own limits, at least
\* limits.minNailLength (3 m) and at most limits.maxNailLength (20 m); and the
\* escalated length of a steep terrain is strictly greater than the table
\* length, for every entry of the table.
C30_AppliedLengthInLimits ==
  [][(designApplies /\ ApplyPrescriptiveDesign) =>
       /\ form'.nailLength >= 3000
       /\ form'.nailLength <= 20000
       /\ steepNow => form'.nailLength > TableLength(slopeHeightNow)
       /\ ~steepNow => form'.nailLength = TableLength(slopeHeightNow)
    ]_vars

\* a vertical face of 25 m, above the table: the last entry's 16 m escalated
\* to 20 m, the upper limit itself
C30_Witness ==
  /\ points = <<[x |-> 0, y |-> 0], [x |-> 0, y |-> 25000]>>
  /\ steepNow
  /\ TableLength(slopeHeightNow) = 16000
  /\ form.nailLength = 20000
  /\ form.patternType = "staggered"

\* a vertical face of 0.5 m: the first entry's 3 m escalated to 4 m
C30_WitnessShort ==
  /\ points = <<[x |-> 0, y |-> 0], [x |-> 0, y |-> 500]>>
  /\ steepNow
  /\ form.nailLength = 4000
  /\ form.patternType = "staggered"

\* C25: nail length and inclination are uniform across a Layout and the
\* variableLength flag does nothing: every row and every nail carries
\* params.nailLength and params.inclination, and the call made with only
\* variableLength changed returns the same rows, nails, nailsPerRow, warnings
\* and error.
C25_VariableLengthNoOp ==
  (pc = "generated" /\ layout # Null) =>
    \A p \in {formParams}, tp \in {terrainNow} :
      /\ \A k \in 1..Len(layout.rows) :
            /\ layout.rows[k].nailLength = p.nailLength
            /\ layout.rows[k].inclination = p.inclination
      /\ \A n \in 1..Len(layout.nails) :
            /\ layout.nails[n].length = p.nailLength
            /\ layout.nails[n].inclination = p.inclination
      /\ \A other \in {LayoutFor([p EXCEPT !.variableLength = ~p.variableLength], tp)} :
            /\ other.returned
            /\ other.layout.error = layout.error
            /\ other.layout.rows = layout.rows
            /\ other.layout.nails = layout.nails
            /\ layout.error = NoError =>
                 /\ other.layout.params.variableLength # layout.params.variableLength
                 /\ other.layout.nailsPerRow = layout.nailsPerRow
                 /\ other.layout.warnings = layout.warnings

\* the box is ticked and all 7 rows and 21 nails are 6 m long
C25_Witness ==
  /\ pc = "generated"
  /\ layout # Null
  /\ layout.error = NoError
  /\ layout.params.variableLength = TRUE
  /\ Len(layout.rows) = 7
  /\ Len(layout.nails) = 21
  /\ layout.rows[7].nailLength = 6000
  /\ layout.nails[21].length = 6000

\* C26: with topOffset >= 0, bottomOffset >= 0 and vSpacing > 0 no elevation
\* step of a non-error input is skipped: every tested elevation lies in
\* [minElev, maxElev], getTerrainXAtElevation finds an intersection there,
\* rows.length is the number of loop steps and the rows are numbered 1, 2, ...
\* rows.length without a gap.  A gap in the numbering needs a negative offset.
C26_NoSkipWithinSlope ==
  ( /\ layout # Null
    /\ layout.error = NoError
    /\ formParams.topOffset >= 0
    /\ formParams.bottomOffset >= 0
    /\ formParams.vSpacing > 0 ) =>
    \A tp \in {terrainNow}, rows \in {layout.rows} :
      /\ \A i \in 1..Len(visited) :
            /\ visited[i] >= minElevNow
            /\ visited[i] <= maxElevNow
            /\ getTerrainXAtElevation(tp, visited[i]) # NoFace
      /\ Len(rows) = Len(visited)
      /\ \A k \in 1..Len(rows) : rows[k].rowNumber = k

\* three points, the rows 1 mm inside the slope at both ends: the first row at
\* 9.999 m is on the second segment, the last at 0.001 m on the first
C26_Witness ==
  /\ layout # Null
  /\ layout.error = NoError
  /\ terrainNow = <<[x |-> 0, y |-> 0], [x |-> 0, y |-> 500], [x |-> 10000, y |-> 10000]>>
  /\ formParams.topOffset = 1
  /\ formParams.bottomOffset = 1
  /\ formParams.vSpacing = 1500
  /\ Len(visited) = 7
  /\ Len(layout.rows) = 7
  /\ layout.rows[1].elevation = 9999
  /\ layout.rows[7].rowNumber = 7

\* a gap: with topOffset = -1 the first step is above the crest and the rows
\* are numbered from 2
C26_WitnessGap ==
  /\ layout # Null
  /\ layout.error = NoError
  /\ formParams.topOffset < 0
  /\ Len(layout.rows) >= 2
  /\ Len(layout.rows) = Len(visited) - 1
  /\ layout.rows[1].rowNumber = 2

\* C27: for every terrain and every Parameters value with vSpacing > 0 and
\* hSpacing > 0, generateLayout ends and returns a Layout; on a non-error
\* input its row loop runs exactly floor((firstRowElev - lastRowElev) /
\* vSpacing) + 1 steps, which bounds rows.length, and the fan-out loop runs
\* rows.length * nailsPerRow steps (each step pushes one nail).
C27_TerminatesWithStepCounts ==
  (formParams.vSpacing > 0 /\ formParams.hSpacing > 0) =>
    /\ pc # "hung"
    /\ (layout # Null /\ layout.error = NoError) =>
          /\ Len(visited)
               = FloorDiv(firstRowElevNow - lastRowElevNow, formParams.vSpacing) + 1
          /\ Len(layout.rows) <= Len(visited)
          /\ Len(layout.nails) = Len(layout.rows) * layout.nailsPerRow

\* C28: within one Layout the nail ids are pairwise distinct and so are the
\* (row, col) pairs: the emitted rows have pairwise distinct rowNumbers, the
\* columns of one row are 1..nailsPerRow, and two nails with the same id have
\* the same row and column.
C28_DistinctIds ==
  (layout # Null /\ layout.error = NoError) =>
    \A rows \in {layout.rows}, nails \in {layout.nails} :
      /\ \A k \in 1..Len(rows) : \A j \in (k + 1)..Len(rows) :
            rows[k].rowNumber # rows[j].rowNumber
      /\ \A k \in 1..Len(rows) :
            {nails[n].col : n \in {i \in 1..Len(nails) : nails[i].row = rows[k].rowNumber}}
              = 1..layout.nailsPerRow
      /\ \A m \in 1..Len(nails) : \A n \in (m + 1)..Len(nails) :
            /\ nails[m].id # nails[n].id
            /\ <<nails[m].row, nails[m].col>> # <<nails[n].row, nails[n].col>>

\* 7 rows of 3 nails, the rows numbered from 2 after a skipped elevation
C28_Witness ==
  /\ layout # Null
  /\ layout.error = NoError
  /\ Len(layout.rows) = 7
  /\ Len(layout.nails) = 21
  /\ layout.nails[1].id = "N2-1"
  /\ layout.nails[2].id = "N2-2"
  /\ layout.nails[4].id = "N3-1"
  /\ layout.nails[21].id = "N8-3"

(* ------------- the validator applied to the advisor's answer ----------- *)

\* slope heights in mm: every 0.25 m from 0.25 m to 25 m, and the millimetre
\* on either side of 2 m, of 20 m and of the table's boundaries
AgreeHeights ==
  {250 * k : k \in 1..100}
  \cup {b + d : b \in {2000, 3000, 5000, 7000, 10000, 15000, 20000}, d \in {-1, 1}}

AgreeInit ==
  /\ height \in AgreeHeights
  /\ design = Null
  /\ advice = Null
  /\ report = Null
  /\ points = <<>>
  /\ EditorIdle
  /\ form = BaseForm
  /\ CoreUnused
  /\ SessionUnused

\* NailsModule.validateDesign(advice, height) on the value the advisor returned
\* for the same height
ValidateAdvice ==
  /\ advice # Null
  /\ report = Null
  /\ design' = advice
  /\ report' = [warnings |-> validateDesign(advice, height)]
  /\ UNCHANGED <<points, editorVars, form, coreVars, sessionVars, height, advice>>

AgreeNext == Advise \/ ValidateAdvice

AgreeSpec == AgreeInit /\ [][AgreeNext]_vars

\* C29: the advisor and the validator agree on the prescriptive range: for
\* every slope height h with 2 <= h <= 20, validateDesign(
\* getPrescriptiveParams(h), h) is empty; the recommendation has 0.6 <=
\* nailLength / h <= 1.5, a drill / bar ratio of at least 2.5, and spacing,
\* inclination and grout inside the limits.
C29_AdvisorPassesValidator ==
  (report # Null /\ height >= 2000 /\ height <= 20000) =>
    /\ design = advice
    /\ report.warnings = <<>>
    /\ design.nailLength * 10 >= 6 * height
    /\ design.nailLength * 10 <= 15 * height
    /\ design.drillDiameter * 10 >= 25 * design.barDiameter
    /\ design.hSpacing >= 1000 /\ design.hSpacing <= 2000
    /\ design.vSpacing >= 1000 /\ design.vSpacing <= 2000
    /\ design.inclination >= 5 /\ design.inclination <= 20
    /\ design.groutStrength >= 20

\* at 2 m the recommended 3 m nail is at the ratio 1.5 exactly and passes
C29_Witness ==
  /\ report # Null
  /\ height = 2000
  /\ design.nailLength = 3000
  /\ report.warnings = <<>>

\* 1 mm below 2 m the ratio is above 1.5, 1 mm above 20 m the height rule fires
C29_WitnessBelowRange ==
  /\ report # Null
  /\ height = 1999
  /\ report.warnings = <<"ratioAboveTypical">>

C29_WitnessAboveRange ==
  /\ report # Null
  /\ height = 20001
  /\ report.warnings = <<"heightAboveLimit">>

====
